---------------------------- MODULE Spec2Model ----------------------------
(***************************************************************************)
(* Model of src/secret-scanner.js: the pipeline run by main() (provision   *)
(* rules, locate gitleaks, run it, read its report, filter the findings,   *)
(* upload them, write the CI summary) and the pure functions it calls.     *)
(*                                                                         *)
(* JavaScript strings that the code inspects character by character (file  *)
(* paths, match texts) are sequences of one-character strings, so that     *)
(* String.prototype.includes, RegExp.prototype.test, slice and replace are *)
(* computed and not assumed.                                               *)
(***************************************************************************)
EXTENDS Integers, Sequences, FiniteSets

VARIABLES
    pc,            \* position of main(): the stage whose step runs next
    PROJECT_ID,    \* process.env.PROJECT_ID
    rulesPath,     \* value returned by writeCustomRules ("" before)
    gitleaksPath,  \* value resolved by checkGitleaksInstalled ("" before)
    scanErr,       \* err handed to the exec callback of runGitleaks
    reportFile,    \* what the scanner left at reportPath
    results,       \* value returned by readReport
    filtered,      \* value returned by filterSecrets
    netCalls,      \* number of axios.post calls made
    payload,       \* body of the last axios.post
    upload,        \* what sendToApi logged
    summary,       \* what core.summary wrote
    scan_result,   \* the step output variable scan_result
    exitCode,      \* process exit status (meaningful when pc = "exit")
    failure,       \* which stage threw into the catch of main ("none" if none)
    stages         \* stages entered so far, in order

vars == <<pc, PROJECT_ID, rulesPath, gitleaksPath, scanErr, reportFile, results,
          filtered, netCalls, payload, upload, summary, scan_result, exitCode,
          failure, stages>>

-----------------------------------------------------------------------------
(* Bounds *)

\* longest report (number of findings) the scanner writes
MaxFindings == 2

\* longest match text drawn for the classifier on its own
MaxMatchLen == 4

-----------------------------------------------------------------------------
(* String helpers *)

\* sub occurs in s starting at index i (1-based)
OccursAt(s, sub, i) ==
    /\ i >= 1
    /\ i + Len(sub) - 1 <= Len(s)
    /\ \A k \in 1..Len(sub) : s[i + k - 1] = sub[k]

\* String.prototype.includes
Includes(s, sub) == \E i \in 1..(Len(s) + 1) : OccursAt(s, sub, i)

\* String.prototype.slice(0, n)
Slice0(s, n) == SubSeq(s, 1, IF Len(s) < n THEN Len(s) ELSE n)

Digit(d) == <<"0", "1", "2", "3", "4", "5", "6", "7", "8", "9">>[d + 1]

RECURSIVE NumberToString(_)
\* String(n) for a non-negative integer n
NumberToString(n) == IF n < 10 THEN <<Digit(n)>>
               ELSE NumberToString(n \div 10) \o <<Digit(n % 10)>>

\* the value JavaScript calls undefined
Undefined == "undefined"

\* a position field of a finding: a number, or absent from the JSON object
Num(n) == [present |-> TRUE, n |-> n]
Absent == [present |-> FALSE, n |-> 0]

\* String(x ?? '')
StringOrEmpty(x) == IF x.present THEN NumberToString(x.n) ELSE <<>>

-----------------------------------------------------------------------------
(* shouldSkip *)

skipList == << <<"n", "o", "d", "e", "_", "m", "o", "d", "u", "l", "e", "s">>,
               <<".", "g", "i", "t">>,
               <<"p", "a", "c", "k", "a", "g", "e", ".", "j", "s", "o", "n">>,
               <<"R", "E", "A", "D", "M", "E", ".", "m", "d">> >>

shouldSkip(filePath) ==
    \E k \in 1..Len(skipList) : Includes(filePath, skipList[k])

-----------------------------------------------------------------------------
(* The placeholder regular expression of filterSecrets                      *)
(*     /["']?\$\{?[A-Z0-9_]+\}?["']?/                                       *)

Quotes == {"\"", "'"}

NameChars == {"A", "B", "C", "D", "E", "F", "G", "H", "I", "J", "K", "L", "M",
              "N", "O", "P", "Q", "R", "S", "T", "U", "V", "W", "X", "Y", "Z",
              "0", "1", "2", "3", "4", "5", "6", "7", "8", "9", "_"}

\* the pattern as a sequence of atoms: a character class and a quantifier
placeholderRegex ==
    << [cls |-> Quotes,    q |-> "?"],
       [cls |-> {"$"},     q |-> "1"],
       [cls |-> {"{"},     q |-> "?"],
       [cls |-> NameChars, q |-> "+"],
       [cls |-> {"}"},     q |-> "?"],
       [cls |-> Quotes,    q |-> "?"] >>

RECURSIVE MatchFrom(_, _, _, _)
\* atoms k.. of re match s starting at index i (a backtracking matcher)
MatchFrom(re, k, s, i) ==
    IF k > Len(re) THEN TRUE
    ELSE LET a    == re[k]
             here == i <= Len(s) /\ s[i] \in a.cls
         IN  CASE a.q = "1" -> here /\ MatchFrom(re, k + 1, s, i + 1)
               [] a.q = "?" -> \/ (here /\ MatchFrom(re, k + 1, s, i + 1))
                               \/ MatchFrom(re, k + 1, s, i)
               [] a.q = "+" -> here /\ (\/ MatchFrom(re, k, s, i + 1)
                                        \/ MatchFrom(re, k + 1, s, i + 1))

\* RegExp.prototype.test of an unanchored pattern: a match may start anywhere
RegexTest(re, s) == \E i \in 1..(Len(s) + 1) : MatchFrom(re, 1, s, i)

RECURSIVE MatchWhole(_, _, _, _)
\* atoms k.. of re match s from index i up to its end (the pattern anchored)
MatchWhole(re, k, s, i) ==
    IF k > Len(re) THEN i = Len(s) + 1
    ELSE LET a    == re[k]
             here == i <= Len(s) /\ s[i] \in a.cls
         IN  CASE a.q = "1" -> here /\ MatchWhole(re, k + 1, s, i + 1)
               [] a.q = "?" -> \/ (here /\ MatchWhole(re, k + 1, s, i + 1))
                               \/ MatchWhole(re, k + 1, s, i)
               [] a.q = "+" -> here /\ (\/ MatchWhole(re, k, s, i + 1)
                                        \/ MatchWhole(re, k + 1, s, i + 1))

isPlaceholder_anchored(match) == MatchWhole(placeholderRegex, 1, match, 1)

\* line 75: the regex tested against item.Match
isPlaceholder(match) == RegexTest(placeholderRegex, match)

-----------------------------------------------------------------------------
(* filterSecrets *)

\* the callback given to results.filter
keepItem(item) ==
    IF item.File = <<>> \/ shouldSkip(item.File) THEN FALSE
    ELSE IF isPlaceholder(item.Match) THEN FALSE
    ELSE TRUE

RECURSIVE ArrayFilter(_, _)
\* Array.prototype.filter with keepItem as its callback
ArrayFilter(arr, i) ==
    IF i > Len(arr) THEN <<>>
    ELSE (IF keepItem(arr[i]) THEN <<arr[i]>> ELSE <<>>) \o ArrayFilter(arr, i + 1)

filterSecrets_reversed(res) ==
    LET f == ArrayFilter(res, 1) IN [i \in 1..Len(f) |-> f[Len(f) + 1 - i]]

filterSecrets(res) == ArrayFilter(res, 1)

-----------------------------------------------------------------------------
(* mapToApiFormat *)

mapToApiFormat(item) ==
    [ RuleID      |-> item.RuleID,
      Description |-> item.Description,
      File        |-> item.File,
      Match       |-> item.Match,
      Secret      |-> item.Secret,
      StartLine   |-> StringOrEmpty(item.StartLine),
      EndLine     |-> StringOrEmpty(item.EndLine),
      StartColumn |-> StringOrEmpty(item.StartColumn),
      EndColumn   |-> StringOrEmpty(item.EndColumn) ]

-----------------------------------------------------------------------------
(* sendToApi *)

\* !projectId
Falsy(v) == v = Undefined \/ v = ""

sendToApi_noCatch(secrets, projectId, post) ==
    IF Falsy(projectId)
    THEN [calls |-> 0, body |-> <<>>, log |-> "skipped", threw |-> FALSE]
    ELSE [calls |-> 1,
          body  |-> [i \in 1..Len(secrets) |-> mapToApiFormat(secrets[i])],
          log   |-> IF ~post.threw /\ post.status >= 200 /\ post.status < 300
                    THEN "sent" ELSE "failed",
          threw |-> post.threw]

sendToApi_undefinedOnly(secrets, projectId, post) ==
    IF projectId = Undefined
    THEN [calls |-> 0, body |-> <<>>, log |-> "skipped", threw |-> FALSE]
    ELSE [calls |-> 1,
          body  |-> [i \in 1..Len(secrets) |-> mapToApiFormat(secrets[i])],
          log   |-> IF ~post.threw /\ post.status >= 200 /\ post.status < 300
                    THEN "sent" ELSE "failed",
          threw |-> FALSE]

\* post is what axios.post does: it resolves with a status, or it throws.
\* The result: the calls made, the body posted, what was logged, and whether
\* the promise of sendToApi rejects.
sendToApi(secrets, projectId, post) ==
    IF Falsy(projectId)
    THEN [calls |-> 0, body |-> <<>>, log |-> "skipped", threw |-> FALSE]
    ELSE [calls |-> 1,
          body  |-> [i \in 1..Len(secrets) |-> mapToApiFormat(secrets[i])],
          log   |-> IF ~post.threw /\ post.status >= 200 /\ post.status < 300
                    THEN "sent" ELSE "failed",
          threw |-> FALSE]

-----------------------------------------------------------------------------
(* writeGitHubSummary *)

\* item.Match.length > 40
MatchPreviewLen == 40

sbomMarker == <<"/", "s", "b", "o", "m", "/">>

\* item.File.replace(/^.*\/sbom\//, 'sbom/'): .* is greedy, so the prefix up
\* to the last "/sbom/" is what is replaced
shortenPath(file) ==
    LET at == {i \in 1..Len(file) : OccursAt(file, sbomMarker, i)}
    IN  IF at = {} THEN file
        ELSE LET last == CHOOSE i \in at : \A j \in at : j <= i
             IN  <<"s", "b", "o", "m", "/">> \o SubSeq(file, last + Len(sbomMarker), Len(file))

matchPreview(match) ==
    IF Len(match) > MatchPreviewLen
    THEN Slice0(match, MatchPreviewLen) \o <<".", ".", ".">>
    ELSE match

summaryRow(item) ==
    <<shortenPath(item.File), item.Description, item.StartLine,
      matchPreview(item.Match)>>

NoSummary == [kind |-> "none", rows |-> <<>>]

writeGitHubSummary_dropFirst(secrets, writeOk) ==
    IF ~writeOk THEN [summary |-> NoSummary, threw |-> TRUE]
    ELSE IF Len(secrets) = 0
    THEN [summary |-> [kind |-> "success", rows |-> <<>>], threw |-> FALSE]
    ELSE [summary |-> [kind |-> "table",
                       rows |-> [i \in 1..(Len(secrets) - 1) |->
                                     summaryRow(secrets[i + 1])]],
          threw |-> FALSE]

\* writeOk: whether core.summary.write() resolves.  The result: the summary
\* written and whether the promise of writeGitHubSummary rejects.
writeGitHubSummary(secrets, writeOk) ==
    IF ~writeOk THEN [summary |-> NoSummary, threw |-> TRUE]
    ELSE IF Len(secrets) = 0
    THEN [summary |-> [kind |-> "success", rows |-> <<>>], threw |-> FALSE]
    ELSE [summary |-> [kind |-> "table",
                       rows |-> [i \in 1..Len(secrets) |-> summaryRow(secrets[i])]],
          threw |-> FALSE]

-----------------------------------------------------------------------------
(* checkGitleaksInstalled, runGitleaks, readReport *)

checkGitleaksInstalled_errOnly(which) ==
    IF which.err
    THEN [rejected |-> TRUE, path |-> ""]
    ELSE [rejected |-> FALSE, path |-> which.stdout]

\* which: the outcome of exec('which gitleaks'), stdout already trimmed
checkGitleaksInstalled(which) ==
    IF which.err \/ which.stdout = ""
    THEN [rejected |-> TRUE, path |-> ""]
    ELSE [rejected |-> FALSE, path |-> which.stdout]

\* err handed to the callback of exec: no error (exit status 0), or an error
\* whose code is the exit status, or null when a signal ended the scanner
NoErr == [isErr |-> FALSE, code |-> 0]
ExitErr(c) == [isErr |-> TRUE, code |-> c]
SignalErr == [isErr |-> TRUE, code |-> -1]

runGitleaks_anyErr(err) == IF err.isErr THEN "reject" ELSE "resolve"

runGitleaks(err) == IF err.isErr /\ err.code # 1 THEN "reject" ELSE "resolve"

\* JSON values: what JSON.parse returns for the text of the report
JsonArray(items) == [kind |-> "array", items |-> items]
JsonNull == [kind |-> "null", items |-> <<>>]
JsonObject == [kind |-> "object", items |-> <<>>]
\* the report as a file: absent, not JSON, or the text of a JSON value
FileMissing == [kind |-> "missing", items |-> <<>>]
FileMalformed == [kind |-> "malformed", items |-> <<>>]

readReport(file) ==
    IF file.kind \in {"missing", "malformed"} THEN JsonArray(<<>>) ELSE file

\* line 165: !results.length.  Reading length of null throws a TypeError; an
\* object without a length gives undefined, which is falsy like 0.
lengthThrows(r) == r.kind = "null"
noLength(r) == r.kind = "object" \/ (r.kind = "array" /\ Len(r.items) = 0)

-----------------------------------------------------------------------------
(* The environment of one run *)

ProjectIds == {Undefined, "", "proj-1"}

F_node == <<"n", "o", "d", "e", "_", "m", "o", "d", "u", "l", "e", "s", "/", "p", "k", "g", "/", "i", "n", "d", "e", "x", ".", "j", "s">>
F_src == <<"s", "r", "c", "/", "c", "o", "n", "f", "i", "g", ".", "j", "s">>
F_sbom == <<"/", "a", "p", "p", "/", "s", "b", "o", "m", "/", "s", "r", "c", "/", "d", "b", ".", "j", "s">>
Files == {F_node, F_src, F_sbom, <<>>}

M_secret == <<"p", "a", "s", "s", "w", "o", "r", "d", "=", "\"", "S", "u", "p", "3", "r", "$", "e", "c", "r", "e", "t", "9", "9", "\"">>
M_placeholder == <<"p", "a", "s", "s", "w", "o", "r", "d", "=", "\"", "$", "{", "D", "B", "_", "P", "A", "S", "S", "W", "O", "R", "D", "}", "\"">>
M_long == <<"t", "o", "k", "e", "n", ":", " ", "\"", "a", "b", "c", "d", "e", "f", "g", "h", "i", "j", "k", "l", "m", "n", "o", "p", "q", "r", "s", "t", "u", "v", "w", "x", "y", "z", "0", "1", "2", "3", "4", "5", "6", "7", "8", "9", "a", "b", "c", "d", "\"">>
Matches == {M_secret, M_placeholder, M_long}

\* one object of the JSON report gitleaks writes
Finding(file, match) ==
    [ RuleID      |-> "strict-secret-detection",
      Description |-> "Detect likely passwords or secrets with high entropy",
      File        |-> file,
      Match       |-> match,
      Secret      |-> "secret",
      StartLine   |-> Num(12),
      EndLine     |-> Num(12),
      StartColumn |-> Num(3),
      EndColumn   |-> Absent ]

Findings == {Finding(f, m) : f \in Files, m \in Matches}

SeqsUpTo(S, n) == UNION {[1..k -> S] : k \in 0..n}

\* exec callback outcomes of the scanner: exit 0, exit 1, other exit statuses,
\* a signal
ScanErrs == {NoErr, ExitErr(1), ExitErr(2), ExitErr(126), SignalErr}

\* a report that is no sequence of findings
Unreadable == {FileMissing, FileMalformed, JsonNull, JsonObject}

\* gitleaks exits 0 having found nothing and 1 having found something; the
\* report may be unreadable either way
ReportsFor(err) ==
    IF err = NoErr THEN Unreadable \cup {JsonArray(<<>>)}
    ELSE IF err = ExitErr(1)
    THEN Unreadable \cup {JsonArray(fs) : fs \in SeqsUpTo(Findings, MaxFindings) \ {<<>>}}
    ELSE {FileMissing}

WhichOutcomes == {[err |-> FALSE, stdout |-> "/usr/bin/gitleaks"],
                  [err |-> FALSE, stdout |-> ""],
                  [err |-> TRUE, stdout |-> ""]}

\* axios.post: 2xx, a non-2xx status (resolved or thrown, by validateStatus),
\* a transport failure
PostOutcomes == {[threw |-> FALSE, status |-> 200],
                 [threw |-> FALSE, status |-> 500],
                 [threw |-> TRUE, status |-> 500],
                 [threw |-> TRUE, status |-> 0]}

-----------------------------------------------------------------------------
(* main *)

Init ==
    /\ pc = "rules"
    /\ PROJECT_ID \in ProjectIds
    /\ rulesPath = ""
    /\ gitleaksPath = ""
    /\ scanErr = NoErr
    /\ reportFile = FileMissing
    /\ results = JsonArray(<<>>)
    /\ filtered = <<>>
    /\ netCalls = 0
    /\ payload = <<>>
    /\ upload = "none"
    /\ summary = NoSummary
    /\ scan_result = Undefined
    /\ exitCode = 0
    /\ failure = "none"
    /\ stages = <<>>

\* lines 178-181: the catch of main
Catch(cause) ==
    /\ pc' = "exit"
    /\ exitCode' = 1
    /\ failure' = cause

Enter(stage) == stages' = Append(stages, stage)

\* line 160
WriteCustomRules ==
    /\ pc = "rules"
    /\ Enter("rules")
    /\ \E written \in BOOLEAN :
          IF written
          THEN /\ rulesPath' = "/tmp/gitleaks-custom-rules.toml"
               /\ pc' = "check"
               /\ UNCHANGED <<exitCode, failure>>
          ELSE /\ Catch("rules")
               /\ UNCHANGED rulesPath
    /\ UNCHANGED <<PROJECT_ID, gitleaksPath, scanErr, reportFile, results,
                   filtered, netCalls, payload, upload, summary, scan_result>>

\* line 161
CheckGitleaksInstalled ==
    /\ pc = "check"
    /\ Enter("check")
    /\ \E which \in WhichOutcomes :
          LET r == checkGitleaksInstalled(which)
          IN  IF r.rejected
              THEN /\ Catch("toolmissing")
                   /\ UNCHANGED gitleaksPath
              ELSE /\ gitleaksPath' = r.path
                   /\ pc' = "scan"
                   /\ UNCHANGED <<exitCode, failure>>
    /\ UNCHANGED <<PROJECT_ID, rulesPath, scanErr, reportFile, results,
                   filtered, netCalls, payload, upload, summary, scan_result>>

\* line 163
RunGitleaks ==
    /\ pc = "scan"
    /\ Enter("scan")
    /\ \E err \in ScanErrs : \E file \in ReportsFor(err) :
          /\ scanErr' = err
          /\ reportFile' = file
          /\ IF runGitleaks(err) = "reject"
             THEN Catch("execution")
             ELSE /\ pc' = "read"
                  /\ UNCHANGED <<exitCode, failure>>
    /\ UNCHANGED <<PROJECT_ID, rulesPath, gitleaksPath, results, filtered,
                   netCalls, payload, upload, summary, scan_result>>

\* lines 164-165
ReadReport ==
    /\ pc = "read"
    /\ Enter("read")
    /\ LET r == readReport(reportFile)
       IN  /\ results' = r
           /\ IF lengthThrows(r)
              THEN Catch("typeerror")
              ELSE /\ pc' = IF noLength(r) THEN "summary" ELSE "classify"
                   /\ UNCHANGED <<exitCode, failure>>
    /\ UNCHANGED <<PROJECT_ID, rulesPath, gitleaksPath, scanErr, reportFile,
                   filtered, netCalls, payload, upload, summary, scan_result>>

\* lines 171-173
FilterSecrets ==
    /\ pc = "classify"
    /\ Enter("classify")
    /\ filtered' = filterSecrets(results.items)
    /\ pc' = "upload"
    /\ UNCHANGED <<PROJECT_ID, rulesPath, gitleaksPath, scanErr, reportFile,
                   results, netCalls, payload, upload, summary, scan_result,
                   exitCode, failure>>

\* line 175
SendToApi ==
    /\ pc = "upload"
    /\ Enter("upload")
    /\ \E post \in PostOutcomes :
          LET r == sendToApi(filtered, PROJECT_ID, post)
          IN  /\ netCalls' = netCalls + r.calls
              /\ payload' = r.body
              /\ upload' = r.log
              /\ IF r.threw
                 THEN Catch("upload")
                 ELSE /\ pc' = "summary"
                      /\ UNCHANGED <<exitCode, failure>>
    /\ UNCHANGED <<PROJECT_ID, rulesPath, gitleaksPath, scanErr, reportFile,
                   results, filtered, summary, scan_result>>

\* the argument of writeGitHubSummary: [] at line 167, filtered at line 176
summaryArg == IF \E i \in 1..Len(stages) : stages[i] = "classify"
              THEN filtered ELSE <<>>

\* lines 167-168 and line 176, and the normal return of main
WriteGitHubSummary ==
    /\ pc = "summary"
    /\ Enter("summary")
    /\ \E writeOk \in BOOLEAN :
          LET r == writeGitHubSummary(summaryArg, writeOk)
          IN  /\ summary' = r.summary
              /\ IF r.threw
                 THEN Catch("summary")
                 ELSE /\ pc' = "exit"
                      /\ UNCHANGED <<exitCode, failure>>
    /\ UNCHANGED <<PROJECT_ID, rulesPath, gitleaksPath, scanErr, reportFile,
                   results, filtered, netCalls, payload, upload, scan_result>>

Next ==
    \/ WriteCustomRules
    \/ CheckGitleaksInstalled
    \/ RunGitleaks
    \/ ReadReport
    \/ FilterSecrets
    \/ SendToApi
    \/ WriteGitHubSummary

Spec == Init /\ [][Next]_vars

-----------------------------------------------------------------------------
(* The classifier on its own: main at line 171, the report holding one      *)
(* finding whose match text is any text over MatchAlphabet                  *)

MatchAlphabet == {"$", "{", "}", "\"", "A", "e"}

InitClassify ==
    /\ pc = "classify"
    /\ PROJECT_ID = Undefined
    /\ rulesPath = "/tmp/gitleaks-custom-rules.toml"
    /\ gitleaksPath = "/usr/bin/gitleaks"
    /\ scanErr = ExitErr(1)
    /\ \E f \in {F_src, F_node} : \E m \in SeqsUpTo(MatchAlphabet, MaxMatchLen) :
          reportFile = JsonArray(<<Finding(f, m)>>)
    /\ results = reportFile
    /\ filtered = <<>>
    /\ netCalls = 0
    /\ payload = <<>>
    /\ upload = "none"
    /\ summary = NoSummary
    /\ scan_result = Undefined
    /\ exitCode = 0
    /\ failure = "none"
    /\ stages = <<"rules", "check", "scan", "read">>

NextClassify == FilterSecrets

SpecClassify == InitClassify /\ [][NextClassify]_vars

-----------------------------------------------------------------------------
(* Properties *)

Entered(stage) == \E i \in 1..Len(stages) : stages[i] = stage

\* out is in with some elements removed: same elements, same relative order
RECURSIVE EmbedsFrom(_, _, _, _)
EmbedsFrom(out, i, in, j) ==
    IF i > Len(out) THEN TRUE
    ELSE IF j > Len(in) THEN FALSE
    ELSE IF out[i] = in[j] THEN EmbedsFrom(out, i + 1, in, j + 1)
    ELSE EmbedsFrom(out, i, in, j + 1)

IsSubsequence(out, in) == EmbedsFrom(out, 1, in, 1)

\* the path is non-empty and holds none of the excluded substrings
PassesPathExclusion(file) ==
    /\ file # <<>>
    /\ \A k \in 1..Len(skipList) :
          \A i \in 1..Len(file) : ~OccursAt(file, skipList[k], i)

\* the text holds $ followed by a NAME character, directly or after {
HasVariableReference(m) ==
    \E i \in 1..Len(m) :
        /\ m[i] = "$"
        /\ \/ (i + 1 <= Len(m) /\ m[i + 1] \in NameChars)
           \/ (i + 2 <= Len(m) /\ m[i + 1] = "{" /\ m[i + 2] \in NameChars)

\* C1: the output of filterSecrets is its input with some findings removed
\* (unmodified elements, in their input order, none fabricated), and every
\* finding it retains passes the path exclusion and the placeholder
\* suppression.
C1_PureFilter ==
    Entered("classify") =>
        /\ IsSubsequence(filtered, results.items)
        /\ \A i \in 1..Len(filtered) :
              /\ PassesPathExclusion(filtered[i].File)
              /\ ~HasVariableReference(filtered[i].Match)

\* a report of two findings of which two distinct ones are retained in order
C1_Witness ==
    /\ Entered("classify")
    /\ Len(results.items) = 2
    /\ Len(filtered) = 2
    /\ filtered[1] # filtered[2]
    /\ filtered = results.items

\* the whole text is $NAME or ${NAME}, bare or inside a pair of quotes
IsNameAt(m, lo, hi) == lo <= hi /\ \A i \in lo..hi : m[i] \in NameChars
IsBareShape(m, lo, hi) ==
    \/ (lo <= hi /\ m[lo] = "$" /\ IsNameAt(m, lo + 1, hi))
    \/ (lo + 2 <= hi /\ m[lo] = "$" /\ m[lo + 1] = "{" /\ m[hi] = "}"
        /\ IsNameAt(m, lo + 2, hi - 1))
IsExactShape(m) ==
    \/ IsBareShape(m, 1, Len(m))
    \/ (Len(m) >= 2 /\ m[1] \in Quotes /\ m[Len(m)] = m[1]
        /\ IsBareShape(m, 2, Len(m) - 1))

\* C2 as stated: on a non-excluded path a finding is dropped if and only if
\* its whole match text is one of the shapes $NAME, ${NAME}, "$NAME",
\* '${NAME}'.
C2_DroppedIffExactShape ==
    (Entered("classify") /\ PassesPathExclusion(results.items[1].File)) =>
        (filtered = <<>> <=> IsExactShape(results.items[1].Match))

\* C2 amended: on a non-excluded path a finding is dropped if and only if
\* its match text holds, anywhere, a $ followed by a NAME character or by {
\* and a NAME character; the quotes and the closing brace are optional and
\* the text around the reference does not matter.
C2_DroppedIffHoldsReference ==
    (Entered("classify") /\ PassesPathExclusion(results.items[1].File)) =>
        (filtered = <<>> <=> HasVariableReference(results.items[1].Match))

\* a text that is none of the shapes, on a kept path, is dropped
C2_Witness ==
    /\ Entered("classify")
    /\ results.items[1].File = F_src
    /\ results.items[1].Match = <<"e", "$", "A", "e">>
    /\ filtered = <<>>

\* C3: exit status 0 resolves (no findings), exit status 1 resolves (with
\* findings), and every other outcome of the scanner rejects: the run then
\* classifies nothing, uploads nothing, writes no summary and exits 1.
C3_ExitStatuses ==
    Entered("scan") =>
        IF scanErr \in {NoErr, ExitErr(1)}
        THEN /\ failure # "execution"
             /\ pc # "exit" => Entered("read") \/ pc = "read"
             /\ (scanErr = NoErr /\ Entered("read")) =>
                    (results.items = <<>> /\ ~Entered("classify"))
             /\ (scanErr = ExitErr(1) /\ reportFile.kind = "array") =>
                    (Entered("read") => pc = "classify" \/ Entered("classify"))
        ELSE /\ pc = "exit"
             /\ exitCode = 1
             /\ failure = "execution"
             /\ stages = <<"rules", "check", "scan">>
             /\ filtered = <<>>
             /\ netCalls = 0
             /\ summary = NoSummary

\* the scanner exits with status 2 and the run has ended
C3_Witness ==
    /\ scanErr = ExitErr(2)
    /\ Entered("scan")
    /\ pc = "exit"
    /\ exitCode = 1

ScenarioD == <<Finding(F_src, M_secret)>>

\* C4 as stated: whenever a finding survives classification, the run ends
\* with scan_result = failed and a failed (non-zero) status.  Stated for the
\* runs that wrote the summary table, so that the status is the one the
\* findings give the run and not that of a failed summary write.
C4_FindingsFailTheRun ==
    (pc = "exit" /\ Entered("classify") /\ Len(filtered) >= 1
        /\ summary.kind = "table") =>
        (scan_result = "failed" /\ exitCode # 0)

\* C4 amended: the finding of scenario D is retained; when findings survive,
\* the summary table has one row per surviving finding (one row in scenario
\* D), no scan_result output is set, and the process exits 0; only when the
\* summary write throws is no table written and the exit status 1.
C4_FindingsTableNoFailure ==
    /\ (Entered("classify") /\ results.items = ScenarioD) => filtered = ScenarioD
    /\ (pc = "exit" /\ Entered("classify") /\ Len(filtered) >= 1) =>
          /\ scan_result = Undefined
          /\ \/ /\ failure = "none"
                /\ exitCode = 0
                /\ summary.kind = "table"
                /\ Len(summary.rows) = Len(filtered)
                /\ \A i \in 1..Len(filtered) :
                      /\ summary.rows[i][2] = filtered[i].Description
                      /\ summary.rows[i][3] = filtered[i].StartLine
             \/ /\ failure = "summary"
                /\ exitCode = 1
                /\ summary = NoSummary

\* scenario D has run to its end: one row, exit status 0
C4_Witness ==
    /\ pc = "exit"
    /\ results.items = ScenarioD
    /\ filtered = ScenarioD
    /\ summary.kind = "table"
    /\ Len(summary.rows) = 1
    /\ exitCode = 0

\* C5: a failure while writing the CI summary does not abort the run: the
\* process does not exit with a non-zero status because of it.
C5_SummaryFailureDoesNotAbort ==
    (pc = "exit" /\ Entered("summary") /\ summary.kind = "none") => exitCode = 0

\* what a run shows to the outside
Outcome ==
    [summary |-> summary, netCalls |-> netCalls, payload |-> payload,
     scan_result |-> scan_result, exitCode |-> exitCode]

\* the outcomes of scenario A (the scanner reports zero findings)
ScenarioAOutcomes ==
    {[summary |-> IF ok THEN [kind |-> "success", rows |-> <<>>] ELSE NoSummary,
      netCalls |-> 0, payload |-> <<>>, scan_result |-> Undefined,
      exitCode |-> IF ok THEN 0 ELSE 1] : ok \in BOOLEAN}

\* C6: a run whose findings are all dropped by the classifier (scenario B)
\* has the outcome of a run with zero findings (scenario A): same summary,
\* same upload behaviour, same scan_result, same exit status, whatever
\* PROJECT_ID is.
C6_AllDroppedLikeNoFindings ==
    /\ (Entered("read") /\ reportFile = JsonArray(<<>>)) =>
          /\ netCalls = 0
          /\ pc = "exit" => Outcome \in ScenarioAOutcomes
    /\ (Entered("classify") /\ filtered = <<>>) =>
          /\ netCalls = 0
          /\ pc = "exit" => Outcome \in ScenarioAOutcomes

\* C7: with no PROJECT_ID in the environment sendToApi makes no network
\* call, however many findings were retained, and the skip is no error: the
\* run goes on to the summary step.
C7_UploadSkip ==
    Falsy(PROJECT_ID) =>
        /\ netCalls = 0
        /\ payload = <<>>
        /\ Entered("upload") =>
              /\ upload = "skipped"
              /\ failure # "upload"
              /\ pc = "summary" \/ Entered("summary")

\* two findings retained, the upload skipped, the summary step reached
C7_Witness ==
    /\ PROJECT_ID = ""
    /\ Len(filtered) = 2
    /\ upload = "skipped"
    /\ Entered("summary")

\* C8: when the POST ends in a transport failure or a non-2xx response,
\* sendToApi returns normally, the POST is not retried, the summary step
\* still runs, and a non-zero exit status is never due to the upload.
C8_UploadFailureSwallowed ==
    upload = "failed" =>
        /\ netCalls = 1
        /\ failure # "upload"
        /\ \/ pc = "summary"
           \/ /\ pc = "exit"
              /\ Entered("summary")
              /\ exitCode # 0 => (failure = "summary" /\ summary = NoSummary)

\* the upload failed and the run ended with the table written and status 0
C8_Witness ==
    /\ upload = "failed"
    /\ pc = "exit"
    /\ summary.kind = "table"
    /\ exitCode = 0

StageOrder == <<"rules", "check", "scan", "read", "classify", "upload", "summary">>

\* C9: the stages occur in the order rules, presence check, scan, classify
\* (read, filter), report (upload, summary), each at most once and one at a
\* time; the scanner runs only after the rules were written and gitleaks
\* was found; when gitleaks is not found the run ends before any scan,
\* classification, upload or summary, with exit status 1.
C9_StageOrdering ==
    /\ IsSubsequence(stages, StageOrder)
    /\ Entered("scan") =>
          /\ rulesPath # ""
          /\ gitleaksPath # ""
          /\ SubSeq(stages, 1, 3) = <<"rules", "check", "scan">>
    /\ Entered("read") => Entered("scan") /\ runGitleaks(scanErr) = "resolve"
    /\ Entered("classify") => Entered("read")
    /\ Entered("upload") => Entered("classify")
    /\ Entered("summary") => Entered("read")
    /\ failure = "toolmissing" =>
          /\ pc = "exit"
          /\ exitCode = 1
          /\ stages = <<"rules", "check">>
          /\ filtered = <<>>
          /\ netCalls = 0
          /\ summary = NoSummary

\* gitleaks was not found and the run has ended
C9_Witness ==
    /\ failure = "toolmissing"
    /\ pc = "exit"
    /\ gitleaksPath = ""
    /\ ~Entered("scan")

\* C10: when the scanner resolved but the report is missing or holds no
\* parseable sequence of findings, the run ends like a run without
\* findings: empty finding set, success summary, no upload, exit status 0.
C10_ReportUnreadableRecovered ==
    (pc = "exit" /\ Entered("read") /\ reportFile \in Unreadable) =>
        /\ results.items = <<>>
        /\ summary.kind = "success"
        /\ netCalls = 0
        /\ exitCode = 0

=============================================================================
